---------------------------- MODULE Spec2Model ----------------------------
(***************************************************************************)
(* Model of the transaction classifier of src/preprocessing.py:            *)
(* normalize_text, tokenize, build_merchant_key, _compile_rule,            *)
(* compile_config, classify_merchant_key and process_and_classify, and of   *)
(* the worksheet writer of src/app.py: make_tx_id, gsheet_append_dedup.    *)
(*                                                                         *)
(* A Python str is a sequence of characters; a character is a one-element  *)
(* TLA+ string.  Non-ASCII characters carry ASCII names ("a_tilde").       *)
(***************************************************************************)
EXTENDS Integers, Sequences, FiniteSets, TLC

VARIABLES
    pc,           \* position of the driver: which call has returned
    text,         \* argument of normalize_text / tokenize / build_merchant_key
    max_tokens,   \* argument max_tokens of build_merchant_key
    norm,         \* value returned by normalize_text(text)
    renorm,       \* value returned by normalize_text applied to norm or key
    toks,         \* value returned by tokenize(text)
    key,          \* value returned by build_merchant_key(text, max_tokens)
    df_config,    \* the configuration table handed to compile_config
    rules,        \* value returned by compile_config
    merchant_key, \* argument of classify_merchant_key
    result,       \* value returned by classify_merchant_key
    searched,     \* rules whose matcher classify_merchant_key ran, in order
    error,        \* exception raised by the last call, or NoError
    df_raw,       \* the transaction table handed to process_and_classify
    description_col, \* argument description_col of process_and_classify
    df_out,       \* value returned by process_and_classify
    calls,        \* calls process_and_classify made, in order
    sheet,        \* the rows of the db worksheet
    current,      \* the worksheet rows as the last gsheet_append_dedup call found them
    df_new,       \* the table handed to the last gsheet_append_dedup call
    report        \* value returned by the last gsheet_append_dedup call

textVars == <<text, max_tokens, norm, renorm, toks, key>>
ruleVars == <<rules, merchant_key, result, searched>>
batchVars == <<df_raw, description_col, df_out, calls>>
sheetVars == <<sheet, current, df_new, report>>

vars == <<pc, textVars, df_config, ruleVars, error, batchVars, sheetVars>>

-----------------------------------------------------------------------------
(* Python values that are not str *)

\* A str is a sequence of characters; the two values below are one-element
\* sequences whose element is no character, so they differ from every str.
NONE == <<"py_None">>      \* Python None
NAN == <<"py_nan">>        \* float('nan'), the missing value of a pandas cell
NoError == "no_error"
\* the exceptions, told apart by type and message
ConfigError == "ValueError: Config precisa ter coluna"      \* line 94
SchemaError == "ValueError: CSV precisa ter a coluna"       \* line 150
RegexError == "re.error"                                    \* line 81

-----------------------------------------------------------------------------
(* Bounds of the explored inputs *)

MaxPieces == 3             \* pieces concatenated into an input text
MaxTok == 2                \* largest max_tokens tried
MaxRows == 2               \* rows of a configuration table
MaxTx == 2                 \* rows of a transaction table

-----------------------------------------------------------------------------
(* Characters *)

LowerLetters ==
    {"a","b","c","d","e","f","g","h","i","j","k","l","m",
     "n","o","p","q","r","s","t","u","v","w","x","y","z"}

UpperSeq ==
    <<"A","B","C","D","E","F","G","H","I","J","K","L","M",
      "N","O","P","Q","R","S","T","U","V","W","X","Y","Z">>

LowerSeq ==
    <<"a","b","c","d","e","f","g","h","i","j","k","l","m",
      "n","o","p","q","r","s","t","u","v","w","x","y","z">>

Digits == {"0","1","2","3","4","5","6","7","8","9"}

\* the character class of line 32: [*_\-\/\\|:;.,(){}\[\]<>]
PunctChars ==
    {"*", "_", "-", "/", "\\", "|", ":", ";", ".", ",",
     "(", ")", "{", "}", "[", "]", "<", ">"}

\* \s of the re module, and what str.strip() and str.split() treat as blank
Whitespace == {" ", "\t", "\n", "\r", "\f"}

IsSpace(c) == c \in Whitespace

\* str.lower() on one character
LowerChar(c) ==
    IF \E i \in 1..Len(UpperSeq) : UpperSeq[i] = c
    THEN LowerSeq[CHOOSE i \in 1..Len(UpperSeq) : UpperSeq[i] = c]
    ELSE CASE c = "A_tilde" -> "a_tilde"
           [] c = "C_cedilla" -> "c_cedilla"
           [] c = "E_acute" -> "e_acute"
           [] OTHER -> c

\* unidecode() on one character: ASCII is kept, the rest is transliterated
UnidecodeChar(c) ==
    CASE c = "a_tilde" -> <<"a">>
      [] c = "A_tilde" -> <<"A">>
      [] c = "c_cedilla" -> <<"c">>
      [] c = "C_cedilla" -> <<"C">>
      [] c = "e_acute" -> <<"e">>
      [] c = "E_acute" -> <<"E">>
      [] c = "sharp_s" -> <<"s", "s">>
      [] c = "euro" -> <<"E", "U", "R">>
      [] OTHER -> <<c>>

-----------------------------------------------------------------------------
(* str and re primitives *)

Min(S) == CHOOSE x \in S : \A y \in S : x <= y
Max(S) == CHOOSE x \in S : \A y \in S : x >= y

RECURSIVE Flatten(_)
Flatten(ss) == IF ss = <<>> THEN <<>> ELSE Head(ss) \o Flatten(Tail(ss))

\* str.strip()
Strip(s) ==
    LET ns == {i \in 1..Len(s) : ~IsSpace(s[i])}
    IN IF ns = {} THEN <<>> ELSE SubSeq(s, Min(ns), Max(ns))

\* str.lower()
Lower(s) == [i \in 1..Len(s) |-> LowerChar(s[i])]

\* unidecode(s)
Unidecode(s) == Flatten([i \in 1..Len(s) |-> UnidecodeChar(s[i])])

\* re.sub(r"[C]+", " ", s): every maximal run of characters of the class C
\* becomes one space
SubRuns(s, class) ==
    LET idx == [i \in 1..Len(s) |-> i]
        first == SelectSeq(idx, LAMBDA i : s[i] \notin class \/ i = 1 \/ s[i-1] \notin class)
    IN [j \in 1..Len(first) |-> IF s[first[j]] \in class THEN " " ELSE s[first[j]]]

\* the characters of s in the class [^a-z\s] of line 34
NotLetterOrSpace(s) == {s[i] : i \in 1..Len(s)} \ (LowerLetters \cup Whitespace)

\* str.split(): the maximal runs of non-blank characters, in order
RECURSIVE Split(_)
Split(s) ==
    LET t == Strip(s)
        sp == {i \in 1..Len(t) : IsSpace(t[i])}
        n == IF sp = {} THEN Len(t) + 1 ELSE Min(sp)
    IN IF t = <<>> THEN <<>>
       ELSE <<SubSeq(t, 1, n - 1)>> \o Split(SubSeq(t, n, Len(t)))

\* " ".join(ts)
RECURSIVE Join(_)
Join(ts) ==
    IF ts = <<>> THEN <<>>
    ELSE IF Len(ts) = 1 THEN Head(ts)
    ELSE Head(ts) \o <<" ">> \o Join(Tail(ts))

\* ts[:n], Python slicing: a negative n counts from the end
SliceTo(ts, n) ==
    LET stop == IF n >= 0 THEN Min({n, Len(ts)}) ELSE Max({Len(ts) + n, 0})
    IN SubSeq(ts, 1, stop)

\* str(x) for the values a cell can hold
Str(x) ==
    CASE x = NONE -> <<"N","o","n","e">>
      [] x = NAN -> <<"n","a","n">>
      [] OTHER -> x

-----------------------------------------------------------------------------
(* normalize_text, tokenize, build_merchant_key *)

DEFAULT_STOPWORDS == {
    <<"d","e">>, <<"d","a">>, <<"d","o">>, <<"d","a","s">>, <<"d","o","s">>,
    <<"p","a","r","a">>, <<"p","o","r">>, <<"e","m">>, <<"n","o">>, <<"n","a">>, <<"e">>,
    <<"a">>, <<"o">>, <<"a","s">>, <<"o","s">>, <<"u","m">>, <<"u","m","a">>, <<"a","o">>,
    <<"c","o","m","p","r","a">>, <<"c","a","r","t","a","o">>, <<"c","r","e","d","i","t","o">>,
    <<"d","e","b","i","t","o">>, <<"o","n","l","i","n","e">>,
    <<"p","a","g","a","m","e","n","t","o">>, <<"p","a","r","c","e","l","a">>, <<"p","i","x">>,
    <<"t","r","a","n","s","f","e","r","e","n","c","i","a">>, <<"t","e","d">>, <<"d","o","c">>,
    <<"b","r">>, <<"l","t","d","a">>, <<"m","e","i">>, <<"m","e">>,
    <<"s","e","r","v","i","c","o">>, <<"s","e","r","v","i","c","o","s">>,
    <<"a","s","s","i","n","a","t","u","r","a">>,
    <<"m","e","n","s","a","l","i","d","a","d","e">>,
    <<"e","s","t","a","b","e","l","e","c","i","m","e","n","t","o">>, <<"l","o","j">>,
    <<"l","o","j","a">> }

TOKEN_MIN_LEN == 2
MERCHANT_KEY_MAX_TOKENS == 4

\* normalize_text without the final .strip() of line 35
normalize_text_no_final_strip(t) ==
    IF t = NONE THEN <<>>
    ELSE LET s0 == Lower(Strip(Str(t)))
             s1 == Unidecode(s0)
             s2 == SubRuns(s1, PunctChars)
             s3 == SubRuns(s2, Digits)
             s4 == SubRuns(s3, NotLetterOrSpace(s3))
         IN SubRuns(s4, Whitespace)

\* normalize_text without the digit substitution of line 33 and with the
\* class of line 34 widened to keep digits
normalize_text_keeps_digits(t) ==
    IF t = NONE THEN <<>>
    ELSE LET s0 == Lower(Strip(Str(t)))
             s1 == Unidecode(s0)
             s2 == SubRuns(s1, PunctChars)
             s4 == SubRuns(s2, NotLetterOrSpace(s2) \ Digits)
         IN Strip(SubRuns(s4, Whitespace))

\* normalize_text deleting digits and stray characters instead of putting a
\* space in their place (lines 33-34 with "" for " ")
normalize_text_deletes(t) ==
    IF t = NONE THEN <<>>
    ELSE LET s0 == Lower(Strip(Str(t)))
             s1 == Unidecode(s0)
             s2 == SubRuns(s1, PunctChars)
             s3 == SelectSeq(s2, LAMBDA c : c \notin Digits)
             s4 == SelectSeq(s3, LAMBDA c : c \in LowerLetters \cup Whitespace)
         IN Strip(SubRuns(s4, Whitespace))

normalize_text(t) ==
    IF t = NONE THEN <<>>
    ELSE LET s0 == Lower(Strip(Str(t)))
             s1 == Unidecode(s0)
             s2 == SubRuns(s1, PunctChars)
             s3 == SubRuns(s2, Digits)
             s4 == SubRuns(s3, NotLetterOrSpace(s3))
         IN Strip(SubRuns(s4, Whitespace))

\* tokenize without the stopword test of lines 51-52
tokenize_keeps_stopwords(t) ==
    LET s == normalize_text(t)
    IN IF s = <<>> THEN <<>>
       ELSE SelectSeq(Split(s), LAMBDA w : ~(Len(w) < TOKEN_MIN_LEN))

tokenize(t) ==
    LET s == normalize_text(t)
    IN IF s = <<>> THEN <<>>
       ELSE SelectSeq(Split(s),
                      LAMBDA w : ~(Len(w) < TOKEN_MIN_LEN) /\ w \notin DEFAULT_STOPWORDS)

\* build_merchant_key with the slice of line 61 dropped
build_merchant_key_no_slice(description, mt) ==
    LET ts == tokenize(description)
    IN IF ts = <<>> THEN <<>> ELSE Join(ts)

build_merchant_key(description, mt) ==
    LET ts == tokenize(description)
    IN IF ts = <<>> THEN <<>> ELSE Join(SliceTo(ts, mt))

-----------------------------------------------------------------------------
(* Rule, _compile_rule *)

\* A compiled re.Pattern: kind "dead" is a^ (line 77), kind "literal" is
\* (^|\s)<escaped body>(\s|$) (line 84), kind "regex" is the text after "re:"
\* compiled as supplied (line 81), kind "invalid" stands for re.compile
\* raising re.error.  All but "dead" carry re.IGNORECASE.
Matcher(kind, body) == [kind |-> kind, body |-> body]

\* The regular expressions modelled are a literal text with an optional
\* leading ^ and an optional trailing $; re.compile rejects unbalanced
\* parentheses.
RegexCompiles(rx) ==
    Cardinality({i \in 1..Len(rx) : rx[i] = "("})
        = Cardinality({i \in 1..Len(rx) : rx[i] = ")"})

StartsWith(s, prefix) ==
    Len(s) >= Len(prefix) /\ SubSeq(s, 1, Len(prefix)) = prefix

\* _compile_rule with the literal compiled to a bare substring search, the
\* wrapping of line 84 dropped
compile_rule_substring(pattern_raw) ==
    LET p == Strip(pattern_raw)
    IN IF p = <<>> THEN Matcher("dead", <<>>)
       ELSE IF StartsWith(Lower(p), <<"r","e",":">>)
       THEN LET regex == Strip(SubSeq(p, 4, Len(p)))
            IN IF RegexCompiles(regex) THEN Matcher("regex", regex)
               ELSE Matcher("invalid", regex)
       ELSE Matcher("regex", Lower(p))

compile_rule(pattern_raw) ==
    LET p == Strip(pattern_raw)
    IN IF p = <<>> THEN Matcher("dead", <<>>)
       ELSE IF StartsWith(Lower(p), <<"r","e",":">>)
       THEN LET regex == Strip(SubSeq(p, 4, Len(p)))
            IN IF RegexCompiles(regex) THEN Matcher("regex", regex)
               ELSE Matcher("invalid", regex)
       ELSE Matcher("literal", Lower(p))

\* body occurs in s at position i, letter case ignored
OccursAt(body, s, i) ==
    /\ i >= 1
    /\ i + Len(body) - 1 <= Len(s)
    /\ Lower(SubSeq(s, i, i + Len(body) - 1)) = Lower(body)

\* rule.pattern.search(mk)
Search(m, s) ==
    CASE m.kind = "literal" ->
            \E i \in 1..Len(s) :
                /\ OccursAt(m.body, s, i)
                /\ (i = 1 \/ IsSpace(s[i-1]))
                /\ (i + Len(m.body) - 1 = Len(s) \/ IsSpace(s[i + Len(m.body)]))
      [] m.kind = "regex" ->
            LET fromStart == m.body # <<>> /\ Head(m.body) = "^"
                r1 == IF fromStart THEN Tail(m.body) ELSE m.body
                toEnd == r1 # <<>> /\ r1[Len(r1)] = "$"
                lit == IF toEnd THEN SubSeq(r1, 1, Len(r1) - 1) ELSE r1
            IN \E i \in 1..(Len(s) + 1) :
                /\ OccursAt(lit, s, i)
                /\ (fromStart => i = 1)
                /\ (toEnd => i + Len(lit) - 1 = Len(s))
      [] OTHER -> FALSE

-----------------------------------------------------------------------------
(* compile_config *)

\* A DataFrame is its set of column names and its rows in order; a row maps
\* each column name to the cell's value (a str, or NAN for a missing cell).
Table(columns, rows) == [columns |-> columns, rows |-> rows]

NoTable == Table({}, <<>>)

\* DataFrame.empty: some axis has length 0
IsEmpty(df) == df.rows = <<>> \/ df.columns = {}

RequiredColumns == <<"pattern", "categoria", "subcategoria">>

DEFAULT_PRIORITY == 100

DigitValue(c) ==
    CASE c = "0" -> 0 [] c = "1" -> 1 [] c = "2" -> 2 [] c = "3" -> 3
      [] c = "4" -> 4 [] c = "5" -> 5 [] c = "6" -> 6 [] c = "7" -> 7
      [] c = "8" -> 8 [] c = "9" -> 9

RECURSIVE ParseNat(_)
ParseNat(s) ==
    IF s = <<>> THEN 0
    ELSE 10 * ParseNat(SubSeq(s, 1, Len(s) - 1)) + DigitValue(s[Len(s)])

\* the unsigned decimal texts pd.to_numeric accepts: digits with at most one "."
IsDecimal(s) ==
    LET dots == {i \in 1..Len(s) : s[i] = "."}
    IN /\ Cardinality(dots) <= 1
       /\ \A i \in 1..Len(s) : s[i] \in Digits \cup {"."}
       /\ \E i \in 1..Len(s) : s[i] \in Digits

\* lines 104-107 and 119: int(prio), where prio is pd.to_numeric(cell,
\* errors="coerce") and a NaN result becomes 100
Priority(cell) ==
    LET neg == cell # <<>> /\ Head(cell) = "-"
        body == IF neg THEN Tail(cell) ELSE cell
        dots == {i \in 1..Len(body) : body[i] = "."}
        whole == IF dots = {} THEN body ELSE SubSeq(body, 1, Min(dots) - 1)
    IN IF cell = NAN \/ ~IsDecimal(body) THEN DEFAULT_PRIORITY
       ELSE IF neg THEN 0 - ParseNat(whole) ELSE ParseNat(whole)

\* line 103
FalseTexts ==
    { <<"f","a","l","s","e">>, <<"0">>, <<"n","a","o">>, <<"n","a_tilde","o">> }

Active(cell) == Lower(Strip(Str(cell))) \notin FalseTexts

\* lines 96-99: the optional columns are filled with 100 and True
WithDefaults(df) ==
    LET fill(r) ==
            [c \in df.columns \cup {"prioridade", "ativo"} |->
                IF c \in df.columns THEN r[c]
                ELSE IF c = "prioridade" THEN <<"1","0","0">>
                ELSE <<"T","r","u","e">>]
    IN Table(df.columns \cup {"prioridade", "ativo"},
             [i \in 1..Len(df.rows) |-> fill(df.rows[i])])

\* lines 103-122: the Rule built from one row
RuleOf(row) ==
    LET pat_raw == Strip(Str(row["pattern"]))
    IN [pattern_raw |-> pat_raw,
        pattern |-> compile_rule(pat_raw),
        categoria |-> Strip(Str(row["categoria"])),
        subcategoria |-> Strip(Str(row["subcategoria"])),
        prioridade |-> Priority(row["prioridade"]),
        ativo |-> Active(row["ativo"])]

\* the sort key without its second component
PriorityLessOrEqual(r1, r2) == r1.prioridade <= r2.prioridade

\* the sort key of line 124, compared as Python compares tuples
KeyLessOrEqual(r1, r2) ==
    \/ r1.prioridade < r2.prioridade
    \/ /\ r1.prioridade = r2.prioridade
       /\ 0 - Len(r1.pattern_raw) <= 0 - Len(r2.pattern_raw)

\* list.sort is stable: r goes after every element that is not greater
InsertSorted(r, sorted) ==
    LET before == {i \in 1..Len(sorted) : KeyLessOrEqual(sorted[i], r)}
        n == IF before = {} THEN 0 ELSE Max(before)
    IN SubSeq(sorted, 1, n) \o <<r>> \o SubSeq(sorted, n + 1, Len(sorted))

\* line 124
RECURSIVE SortRules(_)
SortRules(rs) ==
    IF rs = <<>> THEN <<>>
    ELSE InsertSorted(rs[Len(rs)], SortRules(SubSeq(rs, 1, Len(rs) - 1)))

Returned(value) == [error |-> NoError, value |-> value]
Raised(exception) == [error |-> exception, value |-> <<>>]

\* compile_config with the column check of lines 92-94 ahead of the
\* emptiness test of lines 88-89
compile_config_checks_columns_first(df) ==
    IF \E i \in 1..Len(RequiredColumns) : RequiredColumns[i] \notin df.columns
    THEN Raised(ConfigError)
    ELSE IF IsEmpty(df) THEN Returned(<<>>)
    ELSE LET filled == WithDefaults(df)
             built == [i \in 1..Len(filled.rows) |-> RuleOf(filled.rows[i])]
         IN IF \E i \in 1..Len(built) : built[i].pattern.kind = "invalid"
            THEN Raised(RegexError)
            ELSE Returned(SortRules(built))

compile_config(df) ==
    IF IsEmpty(df) THEN Returned(<<>>)
    ELSE IF \E i \in 1..Len(RequiredColumns) : RequiredColumns[i] \notin df.columns
    THEN Raised(ConfigError)
    ELSE LET filled == WithDefaults(df)
             built == [i \in 1..Len(filled.rows) |-> RuleOf(filled.rows[i])]
         IN IF \E i \in 1..Len(built) : built[i].pattern.kind = "invalid"
            THEN Raised(RegexError)
            ELSE Returned(SortRules(built))

-----------------------------------------------------------------------------
(* classify_merchant_key *)

NaoClassificado ==
    <<"N","a_tilde","o"," ","c","l","a","s","s","i","f","i","c","a","d","o">>

\* lines 131 and 139
UnclassifiedResult == <<NaoClassificado, <<>>, "nao_classificado">>

\* lines 133-137: the scan from rule i on; searched collects the rules whose
\* matcher was run
RECURSIVE Scan(_, _, _, _)
Scan(mk, rs, i, seen) ==
    IF i > Len(rs) THEN [result |-> UnclassifiedResult, searched |-> seen]
    ELSE IF ~rs[i].ativo THEN Scan(mk, rs, i + 1, seen)
    ELSE IF Search(rs[i].pattern, mk)
    THEN [result |-> <<rs[i].categoria, rs[i].subcategoria, "regex_config">>,
          searched |-> Append(seen, i)]
    ELSE Scan(mk, rs, i + 1, Append(seen, i))

\* the scan without the test of lines 134-135
RECURSIVE ScanAll(_, _, _, _)
ScanAll(mk, rs, i, seen) ==
    IF i > Len(rs) THEN [result |-> UnclassifiedResult, searched |-> seen]
    ELSE IF Search(rs[i].pattern, mk)
    THEN [result |-> <<rs[i].categoria, rs[i].subcategoria, "regex_config">>,
          searched |-> Append(seen, i)]
    ELSE ScanAll(mk, rs, i + 1, Append(seen, i))

\* the scan keeping the last match instead of returning at the first
ScanLast(mk, rs) ==
    LET hits == {i \in 1..Len(rs) : rs[i].ativo /\ Search(rs[i].pattern, mk)}
    IN IF hits = {}
       THEN [result |-> UnclassifiedResult, searched |-> [i \in 1..Len(rs) |-> i]]
       ELSE [result |-> <<rs[Max(hits)].categoria, rs[Max(hits)].subcategoria,
                          "regex_config">>,
             searched |-> [i \in 1..Len(rs) |-> i]]

\* classify_merchant_key without the early return of lines 130-131
classify_no_empty_check(mkey, rs) == Scan(normalize_text(mkey), rs, 1, <<>>)

\* classify_merchant_key skipping no rule
classify_ignoring_ativo(mkey, rs) ==
    LET mk == normalize_text(mkey)
    IN IF mk = <<>> THEN [result |-> UnclassifiedResult, searched |-> <<>>]
       ELSE ScanAll(mk, rs, 1, <<>>)

\* classify_merchant_key where a later match overrides an earlier one
classify_last_match(mkey, rs) ==
    LET mk == normalize_text(mkey)
    IN IF mk = <<>> THEN [result |-> UnclassifiedResult, searched |-> <<>>]
       ELSE ScanLast(mk, rs)

classify_merchant_key(mkey, rs) ==
    LET mk == normalize_text(mkey)
    IN IF mk = <<>> THEN [result |-> UnclassifiedResult, searched |-> <<>>]
       ELSE Scan(mk, rs, 1, <<>>)

-----------------------------------------------------------------------------
(* process_and_classify *)

AddedColumns ==
    {"descricao_normalizada", "merchant_key", "Categoria", "Subcategoria",
     "MetodoClassificacao"}

\* lines 154-169: the row of the result built from one row of the input;
\* .astype(str) is Str
ClassifiedRow(row, columns, col, rs) ==
    LET description == Str(row[col])
        mk == build_merchant_key(description, MERCHANT_KEY_MAX_TOKENS)
        r == classify_merchant_key(Str(mk), rs).result
    IN [c \in columns \cup AddedColumns |->
            CASE c = "descricao_normalizada" -> normalize_text(description)
              [] c = "merchant_key" -> mk
              [] c = "Categoria" -> r[1]
              [] c = "Subcategoria" -> r[2]
              [] c = "MetodoClassificacao" -> r[3]
              [] OTHER -> row[c]]

\* What a call leaves behind: the exception or the returned table, the
\* caller's table after the call, and the calls made on the way.
Outcome(exception, value, input, made) ==
    [error |-> exception, value |-> value, input |-> input, calls |-> made]

\* process_and_classify compiling the configuration ahead of the column test
\* of lines 149-150
process_and_classify_compiles_first(raw, config, col) ==
    LET compiled == compile_config(config)
    IN IF compiled.error # NoError
       THEN Outcome(compiled.error, NoTable, raw, <<"compile_config">>)
       ELSE IF col \notin raw.columns
       THEN Outcome(SchemaError, NoTable, raw, <<"compile_config">>)
       ELSE Outcome(NoError,
                    Table(raw.columns \cup AddedColumns,
                          [i \in 1..Len(raw.rows) |->
                              ClassifiedRow(raw.rows[i], raw.columns, col, compiled.value)]),
                    raw,
                    <<"compile_config">>
                        \o [i \in 1..Len(raw.rows) |-> "classify_merchant_key"])

\* the columns are added to the copy of line 147, so the caller's table stays
process_and_classify(raw, config, col) ==
    IF col \notin raw.columns
    THEN Outcome(SchemaError, NoTable, raw, <<>>)
    ELSE LET compiled == compile_config(config)
         IN IF compiled.error # NoError
            THEN Outcome(compiled.error, NoTable, raw, <<"compile_config">>)
            ELSE Outcome(NoError,
                         Table(raw.columns \cup AddedColumns,
                               [i \in 1..Len(raw.rows) |->
                                   ClassifiedRow(raw.rows[i], raw.columns, col,
                                                 compiled.value)]),
                         raw,
                         <<"compile_config">>
                             \o [i \in 1..Len(raw.rows) |-> "classify_merchant_key"])

-----------------------------------------------------------------------------
(* make_tx_id, gsheet_append_dedup (src/app.py) *)

\* A DataFrame whose column order matters: the columns in order and the rows,
\* each a function from column name to cell.
Frame(columns, rows) == [columns |-> columns, rows |-> rows]

NoFrame == Frame(<<>>, <<>>)

Contains(seq, x) == \E i \in 1..Len(seq) : seq[i] = x

IndexOf(seq, x) == Min({i \in 1..Len(seq) : seq[i] = x})

\* the columns of df_save, lines 356-357
SaveColumns == <<"data", "valor", "descricao", "Categoria", "conta", "tx_id">>

\* hashlib.sha1(...).hexdigest(): the digest is taken to be collision-free,
\* so the digest of a text is the text under a tag
Sha1Hex(s) == <<"sha1:">> \o s

make_tx_id(row) ==
    LET base == Str(row["data"]) \o <<"|">> \o Str(row["valor"]) \o <<"|">>
                \o Str(row["descricao"]) \o <<"|">> \o Str(row["conta"])
                \o <<"|">> \o Str(row["Categoria"])
    IN Sha1Hex(Lower(Strip(base)))

\* df_save of lines 356-357: the five columns and the tx_id of every row
SaveFrame(rows) ==
    Frame(SaveColumns,
          [i \in 1..Len(rows) |->
              [c \in {SaveColumns[n] : n \in 1..Len(SaveColumns)} |->
                  IF c = "tx_id" THEN make_tx_id(rows[i]) ELSE rows[i][c]]])

\* the dictionary gsheet_append_dedup returns
Report(acao, novas, duplicadas) ==
    [acao |-> acao, novas |-> novas, duplicadas |-> duplicadas]

NoReport == Report("", 0, 0)

NoIdColumnError == "ValueError: a aba nao tem a coluna"          \* line 107
MissingColumnsError == "ValueError: a aba exige colunas"         \* line 131
KeyError == "KeyError"                                           \* line 120

\* df[order].astype(str).values.tolist()
Values(df, order) ==
    [i \in 1..Len(df.rows) |-> [n \in 1..Len(order) |-> Str(df.rows[i][order[n]])]]

\* a worksheet is the list of its rows, as get_all_values returns it: the
\* header row of column names, then the data rows of cells
Overwritten(df) == <<df.columns>> \o Values(df, df.columns)

\* the value and the effect of a call: the worksheet it leaves, the worksheet
\* it found, the dictionary it returns and the exception it raises
SheetOutcome(ws, read, returned, exception) ==
    [sheet |-> ws, current |-> read, report |-> returned, error |-> exception]

gsheet_append_dedup(ws, df, id_col) ==
    IF df.rows = <<>> \/ df.columns = <<>>
    THEN SheetOutcome(ws, ws, Report("nada", 0, 0), NoError)
    ELSE IF ws = <<>>
    THEN SheetOutcome(Overwritten(df), ws,
                      Report("overwrite_vazio", Len(df.rows), 0), NoError)
    ELSE IF ~(\E n \in 1..Len(ws[1]) : ws[1][n] # "")
    THEN SheetOutcome(Overwritten(df), ws,
                      Report("overwrite_header_invalido", Len(df.rows), 0), NoError)
    ELSE LET header == ws[1]
         IN IF ~Contains(header, id_col)
            THEN SheetOutcome(ws, ws, NoReport, NoIdColumnError)
            ELSE IF ~Contains(df.columns, id_col)
            THEN SheetOutcome(ws, ws, NoReport, KeyError)
            ELSE
            LET id_index == IndexOf(header, id_col)
                ids_existentes ==
                    {Strip(ws[r][id_index]) :
                        r \in {q \in 2..Len(ws) : Len(ws[q]) >= id_index}} \ {<<>>}
                to_append ==
                    Frame(df.columns,
                          SelectSeq(df.rows,
                                    LAMBDA row : Str(row[id_col]) \notin ids_existentes))
                duplicadas == Len(df.rows) - Len(to_append.rows)
            IN IF to_append.rows = <<>>
               THEN SheetOutcome(ws, ws, Report("Salvar", 0, duplicadas), NoError)
               ELSE IF \E n \in 1..Len(header) : ~Contains(df.columns, header[n])
               THEN SheetOutcome(ws, ws, NoReport, MissingColumnsError)
               ELSE SheetOutcome(ws \o Values(to_append, header), ws,
                                 Report("append", Len(to_append.rows), duplicadas),
                                 NoError)

-----------------------------------------------------------------------------
(* Inputs of the text functions *)

\* fragments an input text is assembled from: blanks, listed punctuation, a
\* digit, symbols outside the listed punctuation, accented and uppercase
\* letters, a one-letter token, a stopword and two ordinary words
Pieces ==
    { <<" ">>, <<"-">>, <<".">>, <<"1">>, <<"&">>, <<"euro">>, <<"A_tilde">>,
      <<"a">>, <<"d","e">>, <<"b","a","r">>, <<"O","i">> }

PieceSeqs == UNION {[1..n -> Pieces] : n \in 0..MaxPieces}

Texts == {Flatten(ps) : ps \in PieceSeqs} \cup {NONE, NAN}

MaxTokRange == (0 - 2)..MaxTok

NoResult == <<<<>>, <<>>, "">>

TextIdle ==
    /\ text = <<>>
    /\ max_tokens = MERCHANT_KEY_MAX_TOKENS
    /\ norm = <<>>
    /\ renorm = <<>>
    /\ toks = <<>>
    /\ key = <<>>

RulesIdle ==
    /\ rules = <<>>
    /\ merchant_key = <<>>
    /\ result = NoResult
    /\ searched = <<>>

BatchIdle ==
    /\ df_raw = NoTable
    /\ description_col = "descricao"
    /\ df_out = NoTable
    /\ calls = <<>>

SheetIdle ==
    /\ sheet = <<>>
    /\ current = <<>>
    /\ df_new = NoFrame
    /\ report = NoReport

InitText ==
    /\ pc = "start"
    /\ text \in Texts
    /\ max_tokens = MERCHANT_KEY_MAX_TOKENS
    /\ norm = <<>>
    /\ renorm = <<>>
    /\ toks = <<>>
    /\ key = <<>>
    /\ df_config = NoTable
    /\ error = NoError
    /\ RulesIdle
    /\ BatchIdle
    /\ SheetIdle

tableVars == <<df_config, ruleVars, error, batchVars, sheetVars>>

\* a call normalize_text(text)
Normalize ==
    /\ pc = "start"
    /\ norm' = normalize_text(text)
    /\ pc' = "normalized"
    /\ UNCHANGED <<text, max_tokens, renorm, toks, key, tableVars>>

\* normalize_text applied to its own result
Renormalize ==
    /\ pc = "normalized"
    /\ renorm' = normalize_text(norm)
    /\ pc' = "renormalized"
    /\ UNCHANGED <<text, max_tokens, norm, toks, key, tableVars>>

\* a call tokenize(text)
Tokenize ==
    /\ pc = "start"
    /\ toks' = tokenize(text)
    /\ pc' = "tokenized"
    /\ UNCHANGED <<text, max_tokens, norm, renorm, key, tableVars>>

\* a call build_merchant_key(text, mt)
BuildKey ==
    /\ pc = "start"
    /\ \E mt \in MaxTokRange :
          /\ max_tokens' = mt
          /\ key' = build_merchant_key(text, mt)
    /\ pc' = "keyed"
    /\ UNCHANGED <<text, norm, renorm, toks, tableVars>>

\* line 129: classify_merchant_key normalizes the key it is given
NormalizeKey ==
    /\ pc = "keyed"
    /\ renorm' = normalize_text(key)
    /\ pc' = "key_normalized"
    /\ UNCHANGED <<text, max_tokens, norm, toks, key, tableVars>>

NextText == Normalize \/ Renormalize \/ Tokenize \/ BuildKey \/ NormalizeKey

SpecText == InitText /\ [][NextText]_vars

-----------------------------------------------------------------------------
(* Claims about the text functions *)

\* only a-z and single spaces, no blank at either end
IsCanonical(s) ==
    /\ \A i \in 1..Len(s) : s[i] \in LowerLetters \cup {" "}
    /\ \A i \in 1..(Len(s) - 1) : ~(s[i] = " " /\ s[i+1] = " ")
    /\ s # <<>> => (s[1] # " " /\ s[Len(s)] # " ")

\* C8: whatever the input (missing, empty, with digits, punctuation, uppercase
\* or accented letters), normalize_text returns only lowercase ASCII letters
\* and single spaces, with no leading or trailing space, or the empty string.
C8_NormalizedIsCanonical == pc = "normalized" => IsCanonical(norm)

C8_Witness ==
    /\ pc = "normalized"
    /\ text = <<"1", "A_tilde", "-">>
    /\ norm = <<"a">>

\* C9: normalize_text is idempotent, and normalizing again a key that
\* build_merchant_key produced leaves it unchanged.
C9_Idempotent ==
    /\ pc = "renormalized" => renorm = norm
    /\ pc = "key_normalized" => renorm = key

C9_Witness ==
    /\ pc = "key_normalized"
    /\ key = <<"b","a","r"," ","o","i">>
    /\ renorm = key

\* the first n elements of ts, none when n is not positive
FirstTokens(ts, n) == [i \in 1..(IF n > Len(ts) THEN Len(ts) ELSE n) |-> ts[i]]

\* C10 as stated: for every max_tokens, 0 and negative values included, the key
\* has at most max_tokens tokens and is the first max_tokens surviving tokens.
C10_AnyMaxTokens ==
    pc = "keyed" =>
        /\ Len(Split(key)) <= max_tokens
        /\ key = Join(FirstTokens(tokenize(text), max_tokens))

\* C10 amended: for every max_tokens >= 0 the key has at most max_tokens
\* tokens and is the first max_tokens surviving tokens joined by one space.
C10_NonNegativeMaxTokens ==
    (pc = "keyed" /\ max_tokens >= 0) =>
        /\ Len(Split(key)) <= max_tokens
        /\ key = Join(FirstTokens(tokenize(text), max_tokens))

C10_Witness ==
    /\ pc = "keyed"
    /\ max_tokens = 1
    /\ Len(tokenize(text)) = 2
    /\ key = <<"b","a","r">>

-----------------------------------------------------------------------------
(* Inputs of compile_config and classify_merchant_key *)

ConfigRow(pattern, categoria, subcategoria, prioridade, ativo) ==
    [c \in {"pattern", "categoria", "subcategoria", "prioridade", "ativo"} |->
        CASE c = "pattern" -> pattern
          [] c = "categoria" -> categoria
          [] c = "subcategoria" -> subcategoria
          [] c = "prioridade" -> prioridade
          [] OTHER -> ativo]

\* a literal, a longer literal phrase and a regex under an uppercase prefix
PatternCells ==
    { <<"b","a","r">>,
      <<"b","a","r"," ","o","i">>,
      <<"R","E",":","b","a">> }

CategoriaCells == { <<"B","a","r">>, <<"B","a","r","e","s">> }
PrioridadeCells == { <<"5">>, <<"1","0">> }
AtivoCells == { <<"T","r","u","e">>, <<"N","a","o">> }

\* rows with blank, padded, missing, malformed and invalid cells, and a regex
\* that matches the empty text only
OddRows ==
    { ConfigRow(<<"r","e",":","^","$">>, <<"E","m","p","t","y">>, <<>>, <<"5">>,
                <<"T","r","u","e">>),
      ConfigRow(<<" ">>, <<"D","e","a","d">>, <<>>, <<"1">>, <<"T","r","u","e">>),
      ConfigRow(<<" ","O","i"," ">>, <<" ","O","i">>, <<"x">>, <<"x">>, <<"0">>),
      ConfigRow(NAN, <<"N","a","N">>, NAN, NAN, <<"s","i","m">>),
      ConfigRow(<<"r","e",":","(">>, <<"B","a","d">>, <<>>, <<"5">>, <<"T","r","u","e">>) }

ConfigRows ==
    { ConfigRow(p, c, <<"s","u","b">>, pr, a) :
        p \in PatternCells, c \in CategoriaCells, pr \in PrioridadeCells, a \in AtivoCells }
    \cup OddRows

AllColumns == {"pattern", "categoria", "subcategoria", "prioridade", "ativo"}

\* column sets lacking optional columns, required columns, or everything
PartialColumns ==
    { AllColumns \ {"prioridade", "ativo"},
      AllColumns \ {"pattern"},
      AllColumns \ {"categoria"},
      AllColumns \ {"subcategoria", "ativo"},
      {} }

Restrict(row, columns) == [c \in columns |-> row[c]]

RowSeqs(n) == UNION {[1..k -> ConfigRows] : k \in 0..n}

\* tables of up to MaxRows rows with every column, and tables of at most one
\* row under each partial column set
ConfigTables ==
    { Table(AllColumns, rs) : rs \in RowSeqs(MaxRows) }
    \cup { Table(cols, [i \in 1..Len(rs) |-> Restrict(rs[i], cols)]) :
             cols \in PartialColumns, rs \in RowSeqs(1) }

\* merchant keys: empty, empty once normalized, matching, and not normalized
MerchantKeys ==
    { <<>>,
      <<"1">>,
      <<"b","a","r">>,
      <<"b","a","r"," ","o","i">>,
      <<"b","a","r","r","a">>,
      <<"O","I","-","b","a","r">> }

InitRules ==
    /\ pc = "start"
    /\ df_config \in ConfigTables
    /\ error = NoError
    /\ TextIdle
    /\ RulesIdle
    /\ BatchIdle
    /\ SheetIdle

\* a call compile_config(df_config)
CompileConfig ==
    /\ pc = "start"
    /\ LET r == compile_config(df_config)
       IN /\ rules' = r.value
          /\ error' = r.error
    /\ pc' = "compiled"
    /\ UNCHANGED <<textVars, df_config, merchant_key, result, searched, batchVars, sheetVars>>

\* a call classify_merchant_key(mkey, rules) on the compiled rules
Classify ==
    /\ pc = "compiled"
    /\ error = NoError
    /\ \E mkey \in MerchantKeys :
          LET r == classify_merchant_key(mkey, rules)
          IN /\ merchant_key' = mkey
             /\ result' = r.result
             /\ searched' = r.searched
    /\ pc' = "classified"
    /\ UNCHANGED <<textVars, df_config, rules, error, batchVars, sheetVars>>

NextRules == CompileConfig \/ Classify

SpecRules == InitRules /\ [][NextRules]_vars

-----------------------------------------------------------------------------
(* Claims about compile_config and classify_merchant_key *)

\* C1: whatever the row order of the table, the rules compile_config returns
\* are in ascending priority, and rules of equal priority are in descending
\* length of their raw pattern text.
C1_RulesSorted ==
    (pc = "compiled" /\ error = NoError) =>
        \A i, j \in 1..Len(rules) :
            i < j =>
                \/ rules[i].prioridade < rules[j].prioridade
                \/ /\ rules[i].prioridade = rules[j].prioridade
                   /\ Len(rules[i].pattern_raw) >= Len(rules[j].pattern_raw)

\* the table lists a short pattern ahead of a longer one of equal priority
C1_Witness ==
    /\ pc = "compiled"
    /\ error = NoError
    /\ Len(df_config.rows) = 2
    /\ df_config.rows[1]["prioridade"] = <<"1","0">>
    /\ df_config.rows[1]["pattern"] = <<"b","a","r">>
    /\ df_config.rows[2]["prioridade"] = <<"1","0">>
    /\ df_config.rows[2]["pattern"] = <<"b","a","r"," ","o","i">>
    /\ rules[1].pattern_raw = <<"b","a","r"," ","o","i">>
    /\ rules[2].pattern_raw = <<"b","a","r">>

\* the active rules whose matcher matches the normalized key
ActiveHits(mkey, rs) ==
    {i \in 1..Len(rs) : rs[i].ativo /\ Search(rs[i].pattern, normalize_text(mkey))}

\* the rules whose matcher matches the normalized key, active or not
Hits(mkey, rs) ==
    {i \in 1..Len(rs) : Search(rs[i].pattern, normalize_text(mkey))}

RuleResult(r) == <<r.categoria, r.subcategoria, "regex_config">>

\* C2 as stated: for every non-empty merchant key the result is that of the
\* first active rule whose matcher matches the normalized key.
C2_NonEmptyKeyFirstMatch ==
    (pc = "classified" /\ merchant_key # <<>> /\ ActiveHits(merchant_key, rules) # {}) =>
        result = RuleResult(rules[Min(ActiveHits(merchant_key, rules))])

\* C2 amended: for every merchant key that is non-empty after normalization
\* the result is that of the first active rule, in sequence order, whose
\* matcher matches the normalized key, tagged "regex_config".
C2_FirstMatchWins ==
    (/\ pc = "classified"
     /\ normalize_text(merchant_key) # <<>>
     /\ ActiveHits(merchant_key, rules) # {}) =>
        result = RuleResult(rules[Min(ActiveHits(merchant_key, rules))])

\* two active rules match and the earlier one gave the result
C2_Witness ==
    /\ pc = "classified"
    /\ normalize_text(merchant_key) # <<>>
    /\ Cardinality(ActiveHits(merchant_key, rules)) >= 2
    /\ \E i, j \in ActiveHits(merchant_key, rules) : rules[i].categoria # rules[j].categoria
    /\ result = RuleResult(rules[Min(ActiveHits(merchant_key, rules))])

RemoveAt(rs, i) == SubSeq(rs, 1, i - 1) \o SubSeq(rs, i + 1, Len(rs))

\* C3: an inactive rule never decides the result: when every rule matching the
\* key is inactive the result is the unclassified one, and removing any
\* inactive rule leaves the result as it was.
C3_InactiveNeverMatches ==
    pc = "classified" =>
        /\ (\A i \in Hits(merchant_key, rules) : ~rules[i].ativo) =>
               result = UnclassifiedResult
        /\ \A i \in 1..Len(rules) :
               ~rules[i].ativo =>
                   classify_merchant_key(merchant_key, RemoveAt(rules, i)).result = result

\* an inactive rule matches ahead of every active one
C3_Witness ==
    /\ pc = "classified"
    /\ normalize_text(merchant_key) # <<>>
    /\ Hits(merchant_key, rules) # {}
    /\ ~rules[Min(Hits(merchant_key, rules))].ativo
    /\ \A i \in Hits(merchant_key, rules) : ~rules[i].ativo
    /\ result = UnclassifiedResult

Unclassified == <<"U","n","c","l","a","s","s","i","f","i","e","d">>

\* C4 as stated: the result for an empty normalized key, and when no active
\* rule matches, is ("Unclassified", "", "unclassified"), and every method tag is
\* "regex_config" or "unclassified".
C4_UnclassifiedTriple ==
    pc = "classified" =>
        /\ (normalize_text(merchant_key) = <<>> \/ ActiveHits(merchant_key, rules) = {}) =>
               result = <<Unclassified, <<>>, "unclassified">>
        /\ normalize_text(merchant_key) = <<>> => searched = <<>>
        /\ result[3] \in {"regex_config", "unclassified"}

\* C4 amended: the result for a key that is empty after normalization (no
\* rule's matcher being run) and when no active rule matches is
\* ("Não classificado", "", "nao_classificado"), and every method tag is
\* "regex_config" or "nao_classificado".
C4_NaoClassificadoTriple ==
    pc = "classified" =>
        /\ (normalize_text(merchant_key) = <<>> \/ ActiveHits(merchant_key, rules) = {}) =>
               result = <<NaoClassificado, <<>>, "nao_classificado">>
        /\ normalize_text(merchant_key) = <<>> => searched = <<>>
        /\ result[3] \in {"regex_config", "nao_classificado"}

\* the key is empty once normalized and an active rule matches the empty text
C4_Witness ==
    /\ pc = "classified"
    /\ merchant_key = <<"1">>
    /\ ActiveHits(merchant_key, rules) # {}
    /\ result = <<NaoClassificado, <<>>, "nao_classificado">>
    /\ searched = <<>>

MissingRequired(df) ==
    \E i \in 1..Len(RequiredColumns) : RequiredColumns[i] \notin df.columns

\* C5 as stated: compile_config raises the configuration error for every table
\* lacking a required column, a table with no rows included, and returns rules
\* only when the three columns are present.
C5_MissingColumnAlwaysFails ==
    pc = "compiled" =>
        /\ MissingRequired(df_config) => error = ConfigError
        /\ error = NoError => ~MissingRequired(df_config)

\* C5 amended: compile_config raises the configuration error for every table
\* that has at least one row and one column and lacks a required column; for a
\* table with no rows or no columns it returns the empty rule sequence whatever
\* its columns; it returns rules only when the three columns are present or the
\* table is empty.
C5_MissingColumnFailsUnlessEmpty ==
    pc = "compiled" =>
        /\ (MissingRequired(df_config) /\ ~IsEmpty(df_config)) => error = ConfigError
        /\ IsEmpty(df_config) => (error = NoError /\ rules = <<>>)
        /\ error = NoError => (~MissingRequired(df_config) \/ IsEmpty(df_config))

\* a table with one row and no pattern column
C5_Witness ==
    /\ pc = "compiled"
    /\ Len(df_config.rows) = 1
    /\ "pattern" \notin df_config.columns
    /\ "categoria" \in df_config.columns
    /\ error = ConfigError

-----------------------------------------------------------------------------
(* Inputs of process_and_classify *)

\* descriptions: mixed case with punctuation and digits, stopwords only, the
\* two missing values, and five surviving tokens
DescriptionCells ==
    { <<"B","A","R","-","o","i"," ","1","2">>,
      <<"P","I","X"," ","d","e"," ","a">>,
      NONE,
      NAN,
      <<"o","i"," ","o","i"," ","o","i"," ","o","i"," ","b","a","r","r","a">> }

TxColumnSets == { {"descricao", "valor"}, {"historico", "valor"}, {"valor"} }

DescriptionCols == {"descricao", "historico"}

TxRow(columns, description) ==
    [c \in columns |-> IF c = "valor" THEN <<"1","0">> ELSE description]

TxTables ==
    { Table(cols, [i \in 1..Len(ds) |-> TxRow(cols, ds[i])]) :
        cols \in TxColumnSets,
        ds \in UNION {[1..n -> DescriptionCells] : n \in 0..MaxTx} }

True == <<"T","r","u","e">>

\* configurations: three valid rules, no categoria column, an empty sheet, an
\* invalid regular expression
BatchConfigs ==
    { Table(AllColumns,
            << ConfigRow(<<"b","a","r"," ","o","i">>, <<"B","a","r","e","s">>,
                         <<"s","u","b">>, <<"1","0">>, True),
               ConfigRow(<<"n","o","n","e">>, <<"N","e","n","h","u","m">>,
                         <<>>, <<"5">>, True),
               ConfigRow(<<"b","a","r","r","a">>, <<"B","a","r","r","a">>,
                         <<>>, <<"1">>, True) >>),
      Table(AllColumns \ {"categoria"},
            << Restrict(ConfigRow(<<"b","a","r">>, <<>>, <<>>, <<"5">>, True),
                        AllColumns \ {"categoria"}) >>),
      NoTable,
      Table(AllColumns,
            << ConfigRow(<<"r","e",":","(">>, <<"B","a","d">>, <<>>, <<"5">>, True) >>) }

InitBatch ==
    /\ pc = "start"
    /\ df_raw \in TxTables
    /\ df_config \in BatchConfigs
    /\ description_col = "descricao"
    /\ df_out = NoTable
    /\ calls = <<>>
    /\ error = NoError
    /\ TextIdle
    /\ RulesIdle
    /\ SheetIdle

\* a call process_and_classify(df_raw, df_config, col)
Process ==
    /\ pc = "start"
    /\ \E col \in DescriptionCols :
          LET r == process_and_classify(df_raw, df_config, col)
          IN /\ description_col' = col
             /\ df_raw' = r.input
             /\ df_out' = r.value
             /\ error' = r.error
             /\ calls' = r.calls
    /\ pc' = "processed"
    /\ UNCHANGED <<textVars, df_config, ruleVars, sheetVars>>

NextBatch == Process

SpecBatch == InitBatch /\ [][NextBatch]_vars

-----------------------------------------------------------------------------
(* Claims about process_and_classify *)

\* C6: when the description column is absent from the transaction table the
\* call raises the schema error, having compiled no rule and classified no row,
\* returns no table and leaves the caller's table as it was.
C6_MissingDescriptionColumn ==
    [][(pc = "start" /\ pc' = "processed" /\ description_col' \notin df_raw.columns) =>
          /\ error' = SchemaError
          /\ calls' = <<>>
          /\ df_out' = NoTable
          /\ df_raw' = df_raw]_vars

\* the column is absent, the table has rows and the configuration is invalid too
C6_Witness ==
    /\ pc = "processed"
    /\ description_col \notin df_raw.columns
    /\ df_raw.rows # <<>>
    /\ MissingRequired(df_config)
    /\ ~IsEmpty(df_config)
    /\ error = SchemaError
    /\ calls = <<>>

\* C7: the result has one row per input row, in order, and row i carries the
\* category, subcategory and method of
\* classify_merchant_key(build_merchant_key(description of row i), compile_config(config)).
C7_RowwiseComposition ==
    (pc = "processed" /\ error = NoError) =>
        /\ Len(df_out.rows) = Len(df_raw.rows)
        /\ \A i \in 1..Len(df_raw.rows) :
              LET mk == build_merchant_key(df_raw.rows[i][description_col],
                                           MERCHANT_KEY_MAX_TOKENS)
                  expected == classify_merchant_key(mk, compile_config(df_config).value).result
              IN /\ df_out.rows[i]["Categoria"] = expected[1]
                 /\ df_out.rows[i]["Subcategoria"] = expected[2]
                 /\ df_out.rows[i]["MetodoClassificacao"] = expected[3]

-----------------------------------------------------------------------------
(* Inputs for the matcher of a literal pattern *)

\* literal patterns: a word, a padded capitalised phrase, a blank and a missing
\* cell; and the word as a regular expression
MatchPatternCells ==
    { <<"r","e","s","t">>,
      <<" ","R","e","s","t"," ","P","r","a","i","a"," ">>,
      <<" ">>,
      NAN,
      <<"r","e",":","r","e","s","t">> }

MatchRows ==
    { ConfigRow(p, Str(p), <<>>, <<"1","0">>, True) : p \in MatchPatternCells }

MatchTables ==
    { Table(AllColumns, rs) : rs \in UNION {[1..n -> MatchRows] : n \in 0..MaxRows} }

\* keys holding the word as a token at the start, in the middle and at the end,
\* and inside a token as its prefix, its suffix and its middle
MatchKeys ==
    { <<"r","e","s","t"," ","p","r","a","i","a"," ","l","t","d","a">>,
      <<"b","a","r"," ","r","e","s","t","a","u","r","a","n","t","e"," ","p","r","a","i","a">>,
      <<"b","a","r"," ","r","e","s","t"," ","b","a","r">>,
      <<"b","a","r"," ","R","E","S","T">>,
      <<"f","o","r","e","s","t"," ","b","a","r">>,
      <<"b","a","r"," ","f","o","r","e","s","t","a">>,
      <<"n","a","n">>,
      <<"r","e","s","t","-","p","r","a","i","a">> }

InitMatch ==
    /\ pc = "start"
    /\ df_config \in MatchTables
    /\ error = NoError
    /\ TextIdle
    /\ RulesIdle
    /\ BatchIdle
    /\ SheetIdle

\* a call classify_merchant_key(mkey, rules) with one of the keys above
ClassifyMatchKey ==
    /\ pc = "compiled"
    /\ error = NoError
    /\ \E mkey \in MatchKeys :
          LET r == classify_merchant_key(mkey, rules)
          IN /\ merchant_key' = mkey
             /\ result' = r.result
             /\ searched' = r.searched
    /\ pc' = "classified"
    /\ UNCHANGED <<textVars, df_config, rules, error, batchVars, sheetVars>>

NextMatch == CompileConfig \/ ClassifyMatchKey

SpecMatch == InitMatch /\ [][NextMatch]_vars

-----------------------------------------------------------------------------
(* Claim about literal patterns *)

\* p occurs in k right after the start or a blank and right before a blank or
\* the end
OccursAsWords(p, k) ==
    \E i \in 1..(Len(k) + 1) :
        /\ i + Len(p) - 1 <= Len(k)
        /\ SubSeq(k, i, i + Len(p) - 1) = p
        /\ (i = 1 \/ k[i-1] \in Whitespace)
        /\ (i + Len(p) - 1 = Len(k) \/ k[i + Len(p)] \in Whitespace)

IsRegexText(p) == StartsWith(Lower(p), <<"r","e",":">>)

\* the matcher of the n-th rule tried succeeded: the scan ended there with a
\* rule's result
MatchedAt(n) == n = Len(searched) /\ result[3] = "regex_config"

\* C11: the matcher of a pattern without the "re:" prefix succeeds on a
\* normalized key exactly when the lowercased pattern occurs in the key right
\* after the start or a blank and right before a blank or the end; it never
\* succeeds strictly inside a token.
C11_LiteralMatchesWholeWords ==
    pc = "classified" =>
        \A n \in 1..Len(searched) :
            ~IsRegexText(rules[searched[n]].pattern_raw) =>
                (MatchedAt(n) <=>
                    OccursAsWords(Lower(rules[searched[n]].pattern_raw),
                                  normalize_text(merchant_key)))

\* pattern "rest" was tried on "bar restaurante praia" and did not match
C11_Witness ==
    /\ pc = "classified"
    /\ merchant_key =
         <<"b","a","r"," ","r","e","s","t","a","u","r","a","n","t","e"," ","p","r","a","i","a">>
    /\ Len(rules) = 1
    /\ rules[1].pattern_raw = <<"r","e","s","t">>
    /\ searched = <<1>>
    /\ result = UnclassifiedResult

-----------------------------------------------------------------------------
(* Claim about the steps of normalize_text *)

\* a text over ASCII letters, digits, the listed punctuation and spaces
InStatedAlphabet(t) ==
    /\ t \notin {NONE, NAN}
    /\ \A i \in 1..Len(t) :
          t[i] \in LowerLetters \cup {UpperSeq[j] : j \in 1..Len(UpperSeq)}
                     \cup Digits \cup PunctChars \cup {" "}

Delete(s, class) == SelectSeq(s, LAMBDA c : c \notin class)

\* the steps as stated: digits and stray characters are deleted
StatedSteps(t) ==
    LET a == Lower(t)
        b == SubRuns(a, PunctChars)
        c == Delete(b, Digits)
        d == Delete(c, NotLetterOrSpace(c))
    IN Strip(SubRuns(d, Whitespace))

\* the steps with a space put in place of each run of digits and of each run
\* of stray characters
StepsWithSeparators(t) ==
    LET a == Lower(t)
        b == SubRuns(a, PunctChars)
        c == SubRuns(b, Digits)
        d == SubRuns(c, NotLetterOrSpace(c))
    IN Strip(SubRuns(d, Whitespace))

\* C12 as stated: normalize_text lowercases, replaces punctuation runs by a
\* space, deletes digits, deletes what is left outside a-z and whitespace,
\* collapses whitespace and trims; digits introduce no separator.
C12_DigitsDeleted ==
    (pc = "normalized" /\ InStatedAlphabet(text)) => norm = StatedSteps(text)

\* C12 amended: normalize_text lowercases, replaces each run of listed
\* punctuation by a space, replaces each run of digits by a space, replaces each
\* run of what is left outside a-z and whitespace by a space, collapses
\* whitespace and trims; digit runs separate tokens as punctuation does.
C12_DigitsSeparate ==
    (pc = "normalized" /\ InStatedAlphabet(text)) => norm = StepsWithSeparators(text)

\* a digit between two letters
C12_Witness ==
    /\ pc = "normalized"
    /\ text = <<"b","a","r","1","O","i">>
    /\ norm = <<"b","a","r"," ","o","i">>

-----------------------------------------------------------------------------
(* Claim about malformed configuration rows *)

\* the normalized keys a rule is probed with
ProbeKeys == {normalize_text(k) : k \in MerchantKeys \cup MatchKeys} \ {<<>>}

\* a priority cell that is text of a number: an optional sign and a decimal
IsNumericCell(cell) ==
    /\ cell # NAN
    /\ IsDecimal(IF cell # <<>> /\ Head(cell) = "-" THEN Tail(cell) ELSE cell)

IsBlankOrMissing(cell) == cell \in {NONE, NAN} \/ Strip(cell) = <<>>

\* what the claim says of the rule compiled from a row
SafeRuleOf(rule, row) ==
    /\ rule.categoria = Strip(Str(row["categoria"]))
    /\ rule.subcategoria = Strip(Str(row["subcategoria"]))
    /\ IsBlankOrMissing(row["pattern"]) =>
           \A k \in ProbeKeys : ~Search(rule.pattern, k)
    /\ ~IsNumericCell(row["prioridade"]) => rule.prioridade = DEFAULT_PRIORITY
    /\ rule.ativo = (Lower(Strip(Str(row["ativo"]))) \notin FalseTexts)

\* C13: a table with the required columns and no "re:" pattern compiles without
\* error to one rule per row; a blank or missing pattern gives a rule matching
\* no key, a missing or non-numeric priority gives 100, and the active flag is
\* false exactly for "false", "0", "nao", "não".
C13_MalformedRowsAreSafe ==
    (/\ pc = "compiled"
     /\ df_config.columns = AllColumns
     /\ \A i \in 1..Len(df_config.rows) : ~IsRegexText(Strip(Str(df_config.rows[i]["pattern"])))) =>
        /\ error = NoError
        /\ Len(rules) = Len(df_config.rows)
        /\ \A i \in 1..Len(df_config.rows) :
              \E j \in 1..Len(rules) : SafeRuleOf(rules[j], df_config.rows[i])

-----------------------------------------------------------------------------
(* Claim about tokenize *)

\* the positions of the words of s that are long enough and not stopwords
KeptPositions(ws) ==
    {i \in 1..Len(ws) : Len(ws[i]) >= 2 /\ ws[i] \notin DEFAULT_STOPWORDS}

\* the n-th smallest element of a set of positions
NthOf(positions, n) ==
    CHOOSE i \in positions : Cardinality({j \in positions : j <= i}) = n

\* C14: tokenize returns exactly the whitespace-separated tokens of
\* normalize_text(text) that have at least 2 characters and are not stopwords,
\* in their original order with duplicates kept, and the empty sequence when
\* the normalized text is empty.
C14_TokensAreFilteredWords ==
    pc = "tokenized" =>
        LET ws == Split(normalize_text(text))
            kept == KeptPositions(ws)
        IN /\ Len(toks) = Cardinality(kept)
           /\ \A n \in 1..Len(toks) : toks[n] = ws[NthOf(kept, n)]
           /\ normalize_text(text) = <<>> => toks = <<>>

\* "de bar" loses the stopword
C14_Witness ==
    /\ pc = "tokenized"
    /\ text = <<"d", "e", " ", "b", "a", "r">>
    /\ toks = << <<"b", "a", "r">> >>

-----------------------------------------------------------------------------
(* The db worksheet: inputs and specification *)

MaxBatch == 2              \* rows of a batch handed to gsheet_append_dedup

SaveRow(data, valor, descricao, categoria, conta) ==
    [data |-> data, valor |-> valor, descricao |-> descricao,
     Categoria |-> categoria, conta |-> conta]

\* classified transactions: two that differ in the case of the description
\* only, and one of another description
SaveRows ==
    { SaveRow(<<"0","1">>, <<"5">>, d, <<"L">>, <<"c","c">>) :
          d \in { <<"B","a","r">>, <<"b","a","r">>, <<"o","i">> } }

SaveBatches == UNION {[1..n -> SaveRows] : n \in 0..MaxBatch}

\* df_save of every batch
SaveFrames == {SaveFrame(rows) : rows \in SaveBatches}

InitSheet ==
    /\ pc = "start"
    /\ df_config = NoTable
    /\ error = NoError
    /\ TextIdle
    /\ RulesIdle
    /\ BatchIdle
    /\ SheetIdle

\* the upload handler saving a classified batch: df_save with its tx_id
\* column handed to gsheet_append_dedup
Save ==
    /\ pc \in {"start", "saved"}
    /\ \E df_save \in SaveFrames :
          LET r == gsheet_append_dedup(sheet, df_save, "tx_id")
          IN /\ df_new' = df_save
             /\ sheet' = r.sheet
             /\ current' = r.current
             /\ report' = r.report
             /\ error' = r.error
    /\ pc' = "saved"
    /\ UNCHANGED <<textVars, df_config, ruleVars, batchVars>>

NextSheet == Save

SpecSheet == InitSheet /\ [][NextSheet]_vars

\* the tx_id cells of the data rows of a worksheet
TxIds(ws) ==
    IF ws = <<>> THEN <<>>
    ELSE [r \in 1..(Len(ws) - 1) |-> ws[r + 1][IndexOf(ws[1], "tx_id")]]

\* the data rows the last call added to the worksheet
AppendedIds ==
    LET before == TxIds(current)
        after == TxIds(sheet)
    IN SubSeq(after, Len(before) + 1, Len(after))

=============================================================================
